---- MODULE Spec2Model ----
(***************************************************************************)
(* Declaration resolution of the C front end (core/tree/nodes.py) and the   *)
(* root driver of its parser (core/parser/parser.py).                      *)
(*                                                                         *)
(* Encoding of Python values:                                              *)
(*   - an optional object (init, body, array size expression, literal) is  *)
(*     a sequence of length 0 (None) or 1 (the object);                    *)
(*   - an identifier token is the string of its content, which is never    *)
(*     empty; the absent identifier (None) is NoIdentifier;                *)
(*   - DeclInfo.storage is one of AUTO, STATIC, EXTERN, TYPEDEF or         *)
(*     NoStorage (None);                                                   *)
(*   - an exception is a record [type, msg]; NoExc is normal completion.   *)
(*   - every operation that touches the symbol table, the IL code or the   *)
(*     error collector takes the compilation state s and returns a record  *)
(*     [s, exc, val].                                                      *)
(***************************************************************************)
EXTENDS Integers, Sequences, FiniteSets, TLC

VARIABLES symbol_table, il_code, error_collector, tree, crashed, calls, last

vars == <<symbol_table, il_code, error_collector, tree, crashed, calls, last>>

None == "None"
\* The absent identifier (None where an identifier token is expected).
NoIdentifier == ""

\* Bounds of the model.
MaxNodes == 2
MaxCalls == 2
MaxChain == 2

-----------------------------------------------------------------------------
\* Exceptions and results.

NoExc == [type |-> None, msg |-> ""]

CompilerError(err) == [type |-> "CompilerError", msg |-> err]

IndexError == [type |-> "IndexError", msg |-> "list index out of range"]

\* Reading a name that nodes.py binds nowhere (no import, no global, no
\* local): NameError: name '<name>' is not defined.
NameError(name) == [type |-> "NameError", msg |-> name]

\* Node.make_il, which every node class is to override.
NotImplementedError == [type |-> "NotImplementedError", msg |-> ""]

\* A failed parse alternative and how far it got (core.parser.utils).
ParserError(message, amount_parsed) ==
    [type |-> "ParserError", msg |-> message, amount_parsed |-> amount_parsed]

\* Reading an attribute the object does not have.
AttributeError(attr) == [type |-> "AttributeError", msg |-> attr]

R(s, exc, val) == [s |-> s, exc |-> exc, val |-> val]

Ok(r) == r.exc = NoExc

\* with report_err(): a CompilerError raised inside the block is added to the
\* error collector and execution continues after the block; any other
\* exception propagates.
report_err(r) ==
    IF r.exc.type = "CompilerError"
    THEN R([r.s EXCEPT !.error_collector = Append(@, r.exc.msg)], NoExc, r.val)
    ELSE r

-----------------------------------------------------------------------------
\* Concrete types (core.ctypes).

void == [kind |-> "void", const |-> FALSE]
bool_t == [kind |-> "_Bool", const |-> FALSE]
char == [kind |-> "char", const |-> FALSE]
unsig_char == [kind |-> "unsigned char", const |-> FALSE]
short == [kind |-> "short", const |-> FALSE]
unsig_short == [kind |-> "unsigned short", const |-> FALSE]
integer == [kind |-> "int", const |-> FALSE]
unsig_int == [kind |-> "unsigned int", const |-> FALSE]
longint == [kind |-> "long", const |-> FALSE]
unsig_longint == [kind |-> "unsigned long", const |-> FALSE]

ArithKinds == {"_Bool", "char", "unsigned char", "short", "unsigned short",
               "int", "unsigned int", "long", "unsigned long"}

PointerCType(arg, const) == [kind |-> "pointer", arg |-> arg, const |-> const]

ArrayCType(el, n) == [kind |-> "array", el |-> el, n |-> n, const |-> FALSE]

FunctionCType(args, ret, no_info) ==
    [kind |-> "function", args |-> args, ret |-> ret, no_info |-> no_info,
     const |-> FALSE]

is_void(t) == t.kind = "void"
is_pointer(t) == t.kind = "pointer"
is_array(t) == t.kind = "array"
is_function(t) == t.kind = "function"
is_arith(t) == t.kind \in ArithKinds
is_integral(t) == t.kind \in ArithKinds
is_object(t) == is_arith(t) \/ is_pointer(t) \/ is_array(t)
is_complete(t) == is_arith(t) \/ is_pointer(t) \/ (is_array(t) /\ t.n # <<>>)
is_incomplete(t) == is_void(t) \/ (is_array(t) /\ t.n = <<>>)

RECURSIVE weak_compat(_, _)
weak_compat(t, u) ==
    IF t.kind # u.kind THEN FALSE
    ELSE IF is_pointer(t) THEN weak_compat(t.arg, u.arg) /\ t.arg.const = u.arg.const
    ELSE IF is_array(t) THEN weak_compat(t.el, u.el) /\ t.el.const = u.el.const
                             /\ (t.n = <<>> \/ u.n = <<>> \/ t.n = u.n)
    ELSE IF is_function(t) THEN t = u
    ELSE TRUE

compatible(t, u) == weak_compat(t, u) /\ t.const = u.const

-----------------------------------------------------------------------------
\* Expressions (the expression evaluator): an expression node is represented
\* by what its make_il returns, a typed value with an optional literal.

Literal(t, v) == [ctype |-> t, literal |-> <<v>>]

NonLiteral(t) == [ctype |-> t, literal |-> <<>>]

Expr_make_il(expr, s) == R(s, NoExc, expr)

-----------------------------------------------------------------------------
\* Symbol table (core symbol table): a stack of scopes, each a map from a
\* name to its entry.

INTERNAL == "internal"
EXTERNAL == "external"
DEFINED == "defined"
TENTATIVE == "tentative"
UNDEFINED == "undefined"
ST_STATIC == "static"
AUTOMATIC == "automatic"

EmptyScope == [n \in {} |-> None]

NewSymbolTable == <<EmptyScope>>

new_scope(s) == [s EXCEPT !.symbol_table = Append(@, EmptyScope)]

end_scope(s) == [s EXCEPT !.symbol_table = SubSeq(@, 1, Len(@) - 1)]

VarEntry(ctype, defined, linkage, storage) ==
    [typedef |-> FALSE, ctype |-> ctype, defined |-> defined,
     linkage |-> linkage, storage |-> storage]

TypedefEntry(ctype) ==
    [typedef |-> TRUE, ctype |-> ctype, defined |-> None, linkage |-> None,
     storage |-> None]

\* The innermost scope (index) that declares name, 0 when none does.
ScopeOf(st, name) ==
    LET D == {i \in 1..Len(st) : name \in DOMAIN st[i]}
    IN IF D = {} THEN 0 ELSE CHOOSE i \in D : \A j \in D : j <= i

lookup_linkage(st, name) ==
    LET i == ScopeOf(st, name)
    IN IF i = 0 \/ st[i][name].typedef THEN None ELSE st[i][name].linkage

lookup_typedef(name, s) ==
    LET st == s.symbol_table
        i == ScopeOf(st, name)
    IN IF i # 0 /\ st[i][name].typedef
       THEN R(s, NoExc, st[i][name].ctype)
       ELSE R(s, CompilerError("use of undeclared type definition"), void)

max_defined(a, b) ==
    IF DEFINED \in {a, b} THEN DEFINED
    ELSE IF TENTATIVE \in {a, b} THEN TENTATIVE ELSE UNDEFINED

Put(s, name, entry) ==
    LET st == s.symbol_table
        top == Len(st)
    IN [s EXCEPT !.symbol_table =
           [st EXCEPT ![top] = [n \in DOMAIN st[top] \cup {name} |->
                                   IF n = name THEN entry ELSE st[top][n]]]]

add_variable(name, ctype, defined, linkage, storage, s) ==
    LET st == s.symbol_table
        cur == st[Len(st)]
        var == [name |-> name, ctype |-> ctype]
    IN IF name \notin DOMAIN cur
       THEN R(Put(s, name, VarEntry(ctype, defined, linkage, storage)), NoExc, var)
       ELSE LET old == cur[name]
            IN IF old.typedef
               THEN R(s, CompilerError("redeclared type definition as variable"), var)
               ELSE IF old.linkage # linkage
               THEN R(s, CompilerError("redeclared with different linkage"), var)
               ELSE IF linkage = None
               THEN R(s, CompilerError("redeclared with no linkage"), var)
               ELSE IF ~compatible(old.ctype, ctype)
               THEN R(s, CompilerError("redeclared with incompatible type"), var)
               ELSE IF old.defined = DEFINED /\ defined = DEFINED
               THEN R(s, CompilerError("redefinition"), var)
               ELSE R(Put(s, name,
                          VarEntry(IF is_complete(ctype) THEN ctype ELSE old.ctype,
                                   max_defined(old.defined, defined), linkage,
                                   IF storage = None THEN old.storage ELSE storage)),
                      NoExc, [name |-> name, ctype |-> old.ctype])

add_typedef(name, ctype, s) ==
    LET st == s.symbol_table
        cur == st[Len(st)]
    IN IF name \notin DOMAIN cur
       THEN R(Put(s, name, TypedefEntry(ctype)), NoExc, None)
       ELSE IF ~cur[name].typedef
       THEN R(s, CompilerError("redeclared as type definition in same scope"), None)
       ELSE IF ~compatible(cur[name].ctype, ctype)
       THEN R(s, CompilerError("redeclared as incompatible type in same scope"), None)
       ELSE R(s, NoExc, None)

-----------------------------------------------------------------------------
\* IL code (the IL emission interface).

NewILCode == [commands |-> <<>>, funcs |-> <<>>, cur_func |-> None,
              literals |-> <<>>, static_inits |-> <<>>]

start_func(name, s) ==
    [s EXCEPT !.il_code.funcs = Append(@, name), !.il_code.cur_func = name]

add(cmd, s) ==
    [s EXCEPT !.il_code.commands =
        Append(@, [func |-> s.il_code.cur_func, op |-> cmd.op, arg |-> cmd.arg])]

\* Return(None) is Return(<<>>), Return(v) is Return(<<v>>).
Return(v) == [op |-> "Return", arg |-> v]
Set(var, value) == [op |-> "Set", arg |-> <<var.name, value>>]

FuncCommands(il, f) == SelectSeq(il.commands, LAMBDA cmd : cmd.func = f)

always_returns(il) ==
    LET cs == FuncCommands(il, il.cur_func)
    IN cs # <<>> /\ cs[Len(cs)].op = "Return"

static_initialize(var, val, s) ==
    [s EXCEPT !.il_code.static_inits = Append(@, <<var.name, val>>)]

\* DirectLValue(var).set_to(init, il_code, r)
set_to(var, init, s) == add(Set(var, init), s)

-----------------------------------------------------------------------------
\* Declarator trees and declaration roots (core.tree.decl_nodes), tokens.

Pointer(child, const) == [node |-> "Pointer", const |-> const, child |-> child]

Array(n, child) == [node |-> "Array", n |-> n, child |-> child]

Function(args, child) == [node |-> "Function", args |-> args, child |-> child]

Identifier(identifier) == [node |-> "Identifier", identifier |-> identifier]

DeclRoot(specs, decls, inits) == [specs |-> specs, decls |-> decls, inits |-> inits]

Tok(kind) == [kind |-> kind, content |-> kind]

IdentTok(name) == [kind |-> "identifier", content |-> name]

\* The context c: is_global and the enclosing function's return type.
Context(is_global, ret) == [is_global |-> is_global, ret |-> ret]

set_global(c, val) == [c EXCEPT !.is_global = val]

set_return(c, ctype) == [c EXCEPT !.ret = <<ctype>>]

-----------------------------------------------------------------------------
\* class DeclInfo

AUTO == 1
STATIC == 2
EXTERN == 3
TYPEDEF == 4
NoStorage == 0

DeclInfo(identifier, ctype, storage, init, body, param_names) ==
    [identifier |-> identifier, ctype |-> ctype, storage |-> storage,
     init |-> init, body |-> body, param_names |-> param_names]

Min(a, b) == IF a <= b THEN a ELSE b

-----------------------------------------------------------------------------
\* class Declaration: specifiers.

\* storage_classes = {} in Declaration.get_storage: a dict with no keys.
storage_classes == [kind \in {} |-> NoStorage]

RECURSIVE get_storage_loop(_, _, _, _)
get_storage_loop(spec_kinds, i, storage, s) ==
    IF i > Len(spec_kinds) THEN R(s, NoExc, storage)
    ELSE IF spec_kinds[i] \in DOMAIN storage_classes /\ storage = NoStorage
    THEN get_storage_loop(spec_kinds, i + 1, storage_classes[spec_kinds[i]], s)
    ELSE IF spec_kinds[i] \in DOMAIN storage_classes
    THEN R(s, CompilerError("too many storage classes in declaration specifiers"),
           storage)
    ELSE get_storage_loop(spec_kinds, i + 1, storage, s)

Declaration_get_storage(spec_kinds, s) ==
    get_storage_loop(spec_kinds, 1, NoStorage, s)

simple_types == {"void", "_Bool", "char", "short", "int", "long", "signed",
                 "unsigned"}

\* The table of get_base_ctype: each key is the sorted, space-joined list of
\* its keywords, here the set of those keywords (no key repeats a keyword).
base_ctype_table ==
    << <<{"void"}, void>>,
       <<{"_Bool"}, bool_t>>,
       <<{"char"}, char>>,
       <<{"char", "signed"}, char>>,
       <<{"char", "unsigned"}, unsig_char>>,
       <<{"short"}, short>>,
       <<{"short", "signed"}, short>>,
       <<{"int", "short"}, short>>,
       <<{"int", "short", "signed"}, short>>,
       <<{"short", "unsigned"}, unsig_short>>,
       <<{"int", "short", "unsigned"}, unsig_short>>,
       <<{"int"}, integer>>,
       <<{"signed"}, integer>>,
       <<{"int", "signed"}, integer>>,
       <<{"unsigned"}, unsig_int>>,
       <<{"int", "unsigned"}, unsig_int>>,
       <<{"long"}, longint>>,
       <<{"long", "signed"}, longint>>,
       <<{"int", "long"}, longint>>,
       <<{"int", "long", "signed"}, longint>>,
       <<{"long", "unsigned"}, unsig_longint>>,
       <<{"int", "long", "unsigned"}, unsig_longint>> >>

\* How often keyword k occurs in " ".join(sorted(our_base_specs)) after
\* .replace("long long", "long"): the sorted string holds the occurrences of
\* one keyword side by side, and each non-overlapping pair of "long" becomes
\* one "long".
SpecCount(specs, k) ==
    LET n == Cardinality({i \in 1..Len(specs) : specs[i].kind = k})
    IN IF k = "long" THEN n - (n \div 2) ELSE n

get_base_ctype(specs, s) ==
    LET hits == {j \in 1..Len(base_ctype_table) :
                    \A k \in simple_types :
                        SpecCount(specs, k) =
                            IF k \in base_ctype_table[j][1] THEN 1 ELSE 0}
    IN IF hits # {}
       THEN R(s, NoExc, base_ctype_table[CHOOSE j \in hits : TRUE][2])
       ELSE R(s, CompilerError("unrecognized set of type specifiers"), void)

\* struct_union_specs = {} in make_specs_ctype.
struct_union_specs == {}

\* Lines 396-409 of make_specs_ctype: the base type of the specifiers.
specs_base_type(self, specs, s) ==
    LET idents == {i \in 1..Len(specs) : specs[i].kind = "identifier"}
    IN IF \E i \in 1..Len(specs) : specs[i].kind \in struct_union_specs
       THEN R(s, AttributeError("parse_struct_union_spec"), void)
       ELSE IF idents # {}
       THEN lookup_typedef(
                specs[CHOOSE i \in idents : \A j \in idents : i <= j].content, s)
       ELSE get_base_ctype(specs, s)

make_specs_ctype(self, specs, any_dec, s) ==
    IF specs = <<>> THEN R(s, IndexError, <<void, NoStorage>>)
    ELSE
    LET KS(st, base) ==
            IF ~Ok(st) THEN R(s, st.exc, <<void, NoStorage>>)
            ELSE IF ~Ok(base) THEN R(s, base.exc, <<void, NoStorage>>)
            \* if const: ... reads the name const, which nothing binds.
            ELSE R(s, NameError("const"), <<base.val, st.val>>)
    IN KS(Declaration_get_storage([i \in 1..Len(specs) |-> specs[i].kind], s),
          specs_base_type(self, specs, s))

-----------------------------------------------------------------------------
\* class Declaration: type construction.
\* (LET K(r) == ... IN K(call) names the result r of a call.)

Log(s, event) == [s EXCEPT !.log = Append(@, event)]

RECURSIVE make_ctype(_, _, _, _)
RECURSIVE get_decl_infos(_, _, _)
RECURSIVE get_decl_infos_loop(_, _, _, _, _, _, _)
RECURSIVE generate_func_ctype(_, _, _, _)
RECURSIVE func_params_check(_, _, _, _)
RECURSIVE func_params_types(_, _, _, _, _)
RECURSIVE extract_params(_, _, _)
RECURSIVE extract_params_loop(_, _, _, _, _)

generate_array_ctype(self, decl, prev_ctype, s) ==
    IF decl.n # <<>>
    THEN LET bad == ArrayCType(prev_ctype, <<>>)
             K(r) ==
                 IF ~Ok(r) THEN R(r.s, r.exc, bad)
                 ELSE IF ~is_integral(r.val.ctype)
                 THEN R(r.s, CompilerError("array size must have integral type"), bad)
                 ELSE IF r.val.literal = <<>>
                 THEN R(r.s, CompilerError("array size must be compile-time constant"),
                        bad)
                 ELSE IF r.val.literal[1] <= 0
                 THEN R(r.s, CompilerError("array size must be positive"), bad)
                 ELSE IF ~is_complete(prev_ctype)
                 THEN R(r.s, CompilerError("array elements must have complete type"),
                        bad)
                 \* return ArrayCType(...): ArrayCType is bound nowhere.
                 ELSE R(r.s, NameError("ArrayCType"), bad)
         IN K(Expr_make_il(decl.n[1], s))
    ELSE R(s, NameError("ArrayCType"), ArrayCType(prev_ctype, <<>>))

\* for param in decl.args: reject a storage class on a parameter.
func_params_check(self, args, i, s) ==
    IF i > Len(args) THEN R(s, NoExc, None)
    ELSE LET K(r) ==
                 IF ~Ok(r) THEN R(r.s, r.exc, None)
                 ELSE IF r.val = <<>> THEN R(r.s, IndexError, None)
                 ELSE IF r.val[1].storage # NoStorage
                 THEN R(r.s,
                        CompilerError("storage class specified for function parameter"),
                        None)
                 ELSE func_params_check(self, args, i + 1, r.s)
         IN K(get_decl_infos(self, args[i], s))

\* args = [self.get_decl_infos(decl)[0].ctype for decl in decl.args]
func_params_types(self, args, i, out, s) ==
    IF i > Len(args) THEN R(s, NoExc, out)
    ELSE LET K(r) ==
                 IF ~Ok(r) THEN R(r.s, r.exc, out)
                 ELSE IF r.val = <<>> THEN R(r.s, IndexError, out)
                 ELSE func_params_types(self, args, i + 1,
                                        Append(out, r.val[1].ctype), r.s)
         IN K(get_decl_infos(self, args[i], s))

\* The adjustment of array and function parameters: args[i] is left as it is
\* unless it is an array or a function type, where PointerCType is read.
AdjustParam(ctype) ==
    IF is_array(ctype) \/ is_function(ctype) THEN NameError("PointerCType")
    ELSE NoExc

\* The part of _generate_func_ctype after the parameter types are collected
\* and the parameter scope is closed (state s2).
func_ctype_of(self, decl, prev_ctype, param_types, s2) ==
    LET bad == FunctionCType(<<>>, prev_ctype, FALSE)
        args == param_types
        adjust == {i \in 1..Len(args) : AdjustParam(args[i]) # NoExc}
        has_void == \E i \in 1..Len(args) : is_void(args[i])
        K(again) ==
            IF ~Ok(again) THEN R(again.s, again.exc, bad)
            ELSE IF again.val = <<>> THEN R(again.s, IndexError, bad)
            ELSE R(again.s, CompilerError("'void' must be the only parameter"), bad)
    IN IF adjust # {}
       THEN R(s2, AdjustParam(args[CHOOSE i \in adjust : \A j \in adjust : i <= j]),
              bad)
       ELSE IF has_void /\ Len(args) > 1
       THEN K(get_decl_infos(self, decl.args[1], s2))
       ELSE IF is_function(prev_ctype)
       THEN R(s2, CompilerError("function cannot return function type"), bad)
       ELSE IF is_array(prev_ctype)
       THEN R(s2, CompilerError("function cannot return array type"), bad)
       \* new_ctype = FunctionCType(...): FunctionCType is bound nowhere.
       ELSE R(s2, NameError("FunctionCType"), bad)

generate_func_ctype(self, decl, prev_ctype, s) ==
    LET bad == FunctionCType(<<>>, prev_ctype, FALSE)
        K2(tys) ==
            IF ~Ok(tys) THEN R(tys.s, tys.exc, bad)
            ELSE func_ctype_of(self, decl, prev_ctype, tys.val, end_scope(tys.s))
        K1(chk) ==
            IF ~Ok(chk) THEN R(chk.s, chk.exc, bad)
            ELSE K2(func_params_types(self, decl.args, 1, <<>>, new_scope(chk.s)))
    IN K1(func_params_check(self, decl.args, 1, s))

make_ctype(self, decl, prev_ctype, s) ==
    IF decl.node = "Identifier"
    THEN R(s, NoExc, [ctype |-> prev_ctype, identifier |-> decl.identifier])
    ELSE LET K(r) ==
                 IF ~Ok(r)
                 THEN R(r.s, r.exc, [ctype |-> prev_ctype, identifier |-> NoIdentifier])
                 ELSE make_ctype(self, decl.child, r.val, r.s)
         IN K(IF decl.node = "Pointer"
              \* new_ctype = PointerCType(...): PointerCType is bound nowhere.
              THEN R(s, NameError("PointerCType"), PointerCType(prev_ctype, decl.const))
              ELSE IF decl.node = "Array"
              THEN generate_array_ctype(self, decl, prev_ctype, s)
              ELSE generate_func_ctype(self, decl, prev_ctype, s))

\* The Function node of the chain that is closest to the Identifier, as a
\* sequence of length 0 (func_decl is None) or 1.
RECURSIVE func_decl_of(_, _)
func_decl_of(decl, found) ==
    IF decl.node = "Identifier" THEN found
    ELSE func_decl_of(decl.child, IF decl.node = "Function" THEN <<decl>> ELSE found)

extract_params_loop(self, args, i, identifiers, s) ==
    IF i > Len(args) THEN R(s, NoExc, identifiers)
    ELSE LET K(r) ==
                 IF ~Ok(r) THEN R(r.s, r.exc, identifiers)
                 ELSE IF r.val = <<>> THEN R(r.s, IndexError, identifiers)
                 ELSE extract_params_loop(self, args, i + 1,
                                          Append(identifiers, r.val[1].identifier), r.s)
         IN K(get_decl_infos(self, args[i], s))

extract_params(self, decl, s) ==
    LET func_decl == func_decl_of(decl, <<>>)
    IN IF func_decl = <<>>
       THEN R(s, CompilerError("function definition missing parameter list"), <<>>)
       ELSE extract_params_loop(self, func_decl[1].args, 1, <<>>, s)

\* One pass of the loop of get_decl_infos over zip(node.decls, node.inits):
\* the block under report_err, then the next pass.
get_decl_infos_loop(self, node, base_type, storage, i, out, s) ==
    IF i > Min(Len(node.decls), Len(node.inits)) THEN R(s, NoExc, out)
    ELSE LET decl == node.decls[i]
             KP(r, ps) ==
                 IF ~Ok(ps) THEN R(ps.s, ps.exc, out)
                 ELSE R(ps.s, NoExc,
                        Append(out, DeclInfo(r.val.identifier, r.val.ctype, storage,
                                             node.inits[i], self.body, ps.val)))
             KC(r) ==
                 IF ~Ok(r) THEN R(r.s, r.exc, out)
                 ELSE KP(r, IF is_function(r.val.ctype)
                            THEN extract_params(self, decl, r.s)
                            ELSE R(r.s, NoExc, <<>>))
             KD(done) ==
                 IF ~Ok(done) THEN done
                 ELSE get_decl_infos_loop(self, node, base_type, storage, i + 1,
                                          done.val, done.s)
         IN KD(report_err(KC(make_ctype(self, decl, base_type, s))))

get_decl_infos(self, node, s) ==
    LET any_dec == node.decls # <<>>
        K(sp) ==
            IF ~Ok(sp) THEN R(sp.s, sp.exc, <<>>)
            ELSE get_decl_infos_loop(self, node, sp.val[1], sp.val[2], 1, <<>>, sp.s)
    IN K(make_specs_ctype(self, node.specs, any_dec, s))

-----------------------------------------------------------------------------
\* class DeclInfo: linkage, definition state, storage duration.

\* get_linkage with extern never looking at the recorded linkage.
get_linkage_extern_fresh(self, st, c) ==
    IF c.is_global /\ self.storage = STATIC THEN INTERNAL
    ELSE IF self.storage = EXTERN THEN EXTERNAL
    ELSE IF is_function(self.ctype) /\ self.storage = NoStorage THEN EXTERNAL
    ELSE IF c.is_global /\ self.storage = NoStorage THEN EXTERNAL
    ELSE None

get_linkage(self, st, c) ==
    IF c.is_global /\ self.storage = STATIC THEN INTERNAL
    ELSE IF self.storage = EXTERN
    THEN LET cur_linkage == lookup_linkage(st, self.identifier)
         IN IF cur_linkage # None THEN cur_linkage ELSE EXTERNAL
    ELSE IF is_function(self.ctype) /\ self.storage = NoStorage THEN EXTERNAL
    ELSE IF c.is_global /\ self.storage = NoStorage THEN EXTERNAL
    ELSE None

\* get_defined with the tentative case not restricted to file scope.
get_defined_any_scope(self, c) ==
    IF self.storage \in {NoStorage, STATIC}
       /\ is_object(self.ctype) /\ self.init = <<>>
    THEN TENTATIVE
    ELSE IF self.storage = EXTERN /\ ~(self.init # <<>> \/ self.body # <<>>)
    THEN UNDEFINED
    ELSE IF is_function(self.ctype) /\ self.body = <<>>
    THEN UNDEFINED
    ELSE DEFINED

get_defined(self, c) ==
    IF c.is_global /\ self.storage \in {NoStorage, STATIC}
       /\ is_object(self.ctype) /\ self.init = <<>>
    THEN TENTATIVE
    ELSE IF self.storage = EXTERN /\ ~(self.init # <<>> \/ self.body # <<>>)
    THEN UNDEFINED
    ELSE IF is_function(self.ctype) /\ self.body = <<>>
    THEN UNDEFINED
    ELSE DEFINED

DeclInfo_get_storage(self, defined, linkage) ==
    IF defined = UNDEFINED \/ ~is_object(self.ctype) THEN None
    ELSE IF linkage # None \/ self.storage = STATIC THEN ST_STATIC
    ELSE AUTOMATIC

check_main_type(self) ==
    LET args == self.ctype.args
        first == args[1]
        second == args[2]
        is_ptr_array == is_pointer(second)
                        /\ (is_pointer(second.arg) \/ is_array(second.arg))
    IN IF ~compatible(self.ctype.ret, integer)
       THEN CompilerError("'main' function must have integer return type")
       ELSE IF Len(args) \notin {0, 2}
       THEN CompilerError("'main' function must have 0 or 2 arguments")
       ELSE IF args # <<>> /\ ~compatible(first, integer)
       THEN CompilerError("first parameter of 'main' must be of integer type")
       ELSE IF args # <<>> /\ ~is_ptr_array
       THEN CompilerError("second parameter of 'main' must be like char**")
       \* second.arg.arg: an array type has el and n, no attribute arg.
       ELSE IF args # <<>> /\ is_array(second.arg)
       THEN AttributeError("arg")
       ELSE IF args # <<>> /\ ~compatible(second.arg.arg, char)
       THEN CompilerError("second parameter of 'main' must be like char**")
       ELSE NoExc

process_typedef(self, s) ==
    IF self.init # <<>>
    THEN R(s, CompilerError("typedef cannot have initializer"), None)
    ELSE IF self.body # <<>>
    THEN R(s, CompilerError("function definition cannot be a typedef"), None)
    ELSE add_typedef(self.identifier, self.ctype, s)

do_init(self, var, storage, s, c) ==
    LET K(r) ==
            IF ~Ok(r) THEN r
            ELSE IF storage = ST_STATIC /\ r.val.literal = <<>>
            THEN R(r.s, CompilerError(
                  "non-constant initializer for variable with static storage duration"),
                   None)
            ELSE IF storage = ST_STATIC
            THEN R(static_initialize(var, r.val.literal[1], r.s), NoExc, None)
            ELSE IF is_arith(var.ctype) \/ is_pointer(var.ctype)
            THEN R(set_to(var, r.val, r.s), NoExc, None)
            ELSE R(r.s, CompilerError("declared variable is not of assignable type"),
                   None)
    IN K(Expr_make_il(self.init[1], s))

-----------------------------------------------------------------------------
\* Statements, function bodies and DeclInfo.process.

Compound(items) == [node |-> "Compound", items |-> items]

Declaration(root, body) == [node |-> "Declaration", root |-> root, body |-> body]

EmptyStatement == [node |-> "EmptyStatement"]

ExprStatement(expr) == [node |-> "ExprStatement", expr |-> expr]

\* return; is ReturnStatement(<<>>), return e; is ReturnStatement(<<e>>).
ReturnStatement(value) == [node |-> "Return", value |-> value]

RECURSIVE Compound_make_il(_, _, _, _)
RECURSIVE Compound_loop(_, _, _, _)
RECURSIVE Node_make_il(_, _, _)
RECURSIVE Root_loop(_, _, _, _)
RECURSIVE Declaration_make_il(_, _, _)
RECURSIVE Declaration_loop(_, _, _, _)
RECURSIVE process(_, _, _)
RECURSIVE do_body(_, _, _)

\* The loop of do_body over zip(self.ctype.args, self.param_names, range(n)).
bind_params(self, i, s) ==
    IF i > Min(Len(self.ctype.args), Len(self.param_names)) THEN R(s, NoExc, None)
    ELSE LET K(r) ==
                 IF ~Ok(r) THEN R(r.s, r.exc, None)
                 \* il_code.add(value_cmds.LoadArg(arg, i)): value_cmds is bound
                 \* nowhere.
                 ELSE R(r.s, NameError("value_cmds"), None)
         IN K(add_variable(self.param_names[i], self.ctype.args[i], DEFINED,
                           None, AUTOMATIC, s))

\* The implicit return at the end of do_body: ILValue and control_cmds are
\* bound nowhere.
implicit_return(is_main, s) ==
    IF ~always_returns(s.il_code) /\ is_main
    THEN R(s, NameError("ILValue"), None)
    ELSE IF ~always_returns(s.il_code)
    THEN R(s, NameError("control_cmds"), None)
    ELSE R(s, NoExc, None)

\* The body has been emitted: note the IL code at this point.
LogBody(self, s) ==
    Log(s, [ev |-> "body", func |-> self.identifier,
            commands |-> s.il_code.commands, literals |-> s.il_code.literals])

do_body(self, s, c) ==
    LET is_main == self.identifier = "main"
        unnamed == \E i \in 1..Len(self.param_names) : self.param_names[i] = NoIdentifier
        main_exc == IF is_main THEN check_main_type(self) ELSE NoExc
        c2 == set_return(c, self.ctype.ret)
        KR(ret) ==
            IF ~Ok(ret) THEN ret
            ELSE R(end_scope(ret.s), NoExc, None)
        KB(bd) ==
            IF ~Ok(bd) THEN bd
            ELSE KR(implicit_return(is_main, LogBody(self, bd.s)))
        KP(ps) ==
            IF ~Ok(ps) THEN ps
            ELSE KB(Compound_make_il(self.body[1], ps.s, c2, TRUE))
    IN IF unnamed
       THEN R(s, CompilerError("function definition missing parameter name"), None)
       ELSE IF main_exc # NoExc THEN R(s, main_exc, None)
       ELSE KP(bind_params(self, 1, new_scope(start_func(self.identifier, s))))

process(self, s, c) ==
    IF self.identifier = NoIdentifier
    THEN R(s, CompilerError("missing identifier name in declaration"), None)
    ELSE IF self.storage = TYPEDEF THEN process_typedef(self, s)
    ELSE IF self.body # <<>> /\ ~is_function(self.ctype)
    THEN R(s, CompilerError("function definition provided for non-function type"), None)
    ELSE
    LET linkage == get_linkage(self, s.symbol_table, c)
        defined == get_defined(self, c)
        storage == DeclInfo_get_storage(self, defined, linkage)
        s0 == Log(s, [ev |-> "process", identifier |-> self.identifier,
                      is_global |-> c.is_global, linkage |-> linkage,
                      defined |-> defined, storage |-> storage])
        KB(bo) ==
            IF ~Ok(bo) THEN bo
            ELSE IF linkage = None /\ is_incomplete(self.ctype)
            THEN R(bo.s, CompilerError("variable of incomplete type declared"), None)
            ELSE R(bo.s, NoExc, None)
        KI(in) ==
            IF ~Ok(in) THEN in
            ELSE KB(IF self.body # <<>> THEN do_body(self, in.s, c)
                    ELSE R(in.s, NoExc, None))
        KA(av) ==
            IF ~Ok(av) THEN R(av.s, av.exc, None)
            ELSE KI(IF self.init # <<>>
                    THEN do_init(self, av.val, storage,
                                 Log(av.s, [ev |-> "do_init",
                                            identifier |-> self.identifier,
                                            storage |-> storage]), c)
                    ELSE R(av.s, NoExc, None))
    IN IF ~c.is_global /\ self.init # <<>> /\ linkage # None
       THEN R(s0, CompilerError("local variable with linkage has initializer"), None)
       ELSE KA(add_variable(self.identifier, self.ctype, defined, linkage, storage, s0))

\* for info in decl_infos: with report_err(): info.process(...)
Declaration_loop(decl_infos, i, s, c) ==
    IF i > Len(decl_infos) THEN R(s, NoExc, None)
    ELSE LET K(r) == IF ~Ok(r) THEN r ELSE Declaration_loop(decl_infos, i + 1, r.s, c)
         IN K(report_err(process(decl_infos[i], s, c)))

Declaration_make_il(node, s, c) ==
    LET self == [body |-> node.body, c |-> c]
        K(decl_infos) ==
            IF ~Ok(decl_infos) THEN R(decl_infos.s, decl_infos.exc, None)
            ELSE Declaration_loop(decl_infos.val, 1, decl_infos.s, c)
    IN K(get_decl_infos(self, node.root, s))

Return_make_il(node, s, c) ==
    IF node.value = <<>> THEN R(add(Return(<<>>), s), NoExc, None)
    ELSE LET K(r) == IF ~Ok(r) THEN r ELSE R(add(Return(<<r.val>>), r.s), NoExc, None)
         IN K(Expr_make_il(node.value[1], s))

\* Root.make_il: for node in self.nodes: with report_err():
\* c = c.set_global(True); node.make_il(...)
Root_loop(nodes, i, s, c) ==
    IF i > Len(nodes) THEN R(s, NoExc, None)
    ELSE LET K(r) == IF ~Ok(r) THEN r ELSE Root_loop(nodes, i + 1, r.s, set_global(c, TRUE))
         IN K(report_err(Node_make_il(nodes[i], s, set_global(c, TRUE))))

Node_make_il(node, s, c) ==
    IF node.node = "Root" THEN Root_loop(node.nodes, 1, s, c)
    ELSE IF node.node = "Declaration" THEN Declaration_make_il(node, s, c)
    ELSE IF node.node = "Compound" THEN Compound_make_il(node, s, c, FALSE)
    ELSE IF node.node = "EmptyStatement" THEN R(s, NoExc, None)
    ELSE IF node.node = "ExprStatement"
    THEN LET K(r) == R(r.s, r.exc, None) IN K(Expr_make_il(node.expr, s))
    ELSE IF node.node = "Return" THEN Return_make_il(node, s, c)
    ELSE R(s, NotImplementedError, None)

\* for item in self.items: with report_err(): item.make_il(...)
Compound_loop(items, i, s, c) ==
    IF i > Len(items) THEN R(s, NoExc, None)
    ELSE LET K(r) == IF ~Ok(r) THEN r ELSE Compound_loop(items, i + 1, r.s, c)
         IN K(report_err(Node_make_il(items[i], s, c)))

Compound_make_il(self, s, c, no_scope) ==
    LET K(r) ==
            IF ~Ok(r) THEN r
            ELSE R(IF ~no_scope THEN end_scope(r.s) ELSE r.s, NoExc, None)
    IN K(Compound_loop(self.items, 1, IF ~no_scope THEN new_scope(s) ELSE s,
                       set_global(c, FALSE)))

-----------------------------------------------------------------------------
\* Inputs: declarations as the parser hands them over.

IntTok == Tok("int")
NoInit == <<>>
NoBody == <<>>

\* A parameter: one declaration with one declarator and no initializer.
Param(specs, decl) == DeclRoot(specs, <<decl>>, <<NoInit>>)

\* specs decl;  and  specs decl body
Decl1(specs, decl) == Declaration(DeclRoot(specs, <<decl>>, <<NoInit>>), NoBody)
FuncDef(specs, decl, items) ==
    Declaration(DeclRoot(specs, <<decl>>, <<NoInit>>), <<Compound(items)>>)

\* int x;
IntX == Decl1(<<IntTok>>, Identifier("x"))
\* static int x;
StaticIntX == Decl1(<<Tok("static"), IntTok>>, Identifier("x"))
\* static static int x;
StaticStaticIntX == Decl1(<<Tok("static"), Tok("static"), IntTok>>, Identifier("x"))
\* int b[0], y;
BadArrayThenY ==
    Declaration(DeclRoot(<<IntTok>>,
                         <<Array(<<Literal(integer, 0)>>, Identifier("b")),
                           Identifier("y")>>,
                         <<NoInit, NoInit>>), NoBody)
\* int y, g(int a[0]);
YThenBadParam ==
    Declaration(DeclRoot(<<IntTok>>,
                         <<Identifier("y"),
                           Function(<<Param(<<IntTok>>,
                                            Array(<<Literal(integer, 0)>>,
                                                  Identifier("a")))>>,
                                    Identifier("g"))>>,
                         <<NoInit, NoInit>>), NoBody)
\* int main(void) {}
MainVoid ==
    FuncDef(<<IntTok>>,
            Function(<<Param(<<Tok("void")>>, Identifier(NoIdentifier))>>, Identifier("main")),
            <<>>)
\* int main(int argc, char **argv) {}
MainArgcArgv ==
    FuncDef(<<IntTok>>,
            Function(<<Param(<<IntTok>>, Identifier("argc")),
                       Param(<<Tok("char")>>,
                             Pointer(Pointer(Identifier("argv"), FALSE), FALSE))>>,
                     Identifier("main")),
            <<>>)
\* int main() {}
MainEmpty == FuncDef(<<IntTok>>, Function(<<>>, Identifier("main")), <<>>)
\* void main() {}
VoidMain == FuncDef(<<Tok("void")>>, Function(<<>>, Identifier("main")), <<>>)
\* int main(int) {}
MainInt ==
    FuncDef(<<IntTok>>,
            Function(<<Param(<<IntTok>>, Identifier(NoIdentifier))>>, Identifier("main")),
            <<>>)
\* int a[];
IncompleteArray == Decl1(<<IntTok>>, Array(<<>>, Identifier("a")))
\* int f() { int a[]; }
LocalIncompleteArray ==
    FuncDef(<<IntTok>>, Function(<<>>, Identifier("f")), <<IncompleteArray>>)
\* int f() { int g(int a[0]); }
LocalBadParam ==
    FuncDef(<<IntTok>>, Function(<<>>, Identifier("f")),
            <<Declaration(DeclRoot(<<IntTok>>,
                                   <<Function(<<Param(<<IntTok>>,
                                                      Array(<<Literal(integer, 0)>>,
                                                            Identifier("a")))>>,
                                              Identifier("g"))>>,
                                   <<NoInit>>), NoBody)>>)
\* int f(int a, int a) {}
DupParam ==
    FuncDef(<<IntTok>>,
            Function(<<Param(<<IntTok>>, Identifier("a")),
                       Param(<<IntTok>>, Identifier("a"))>>, Identifier("f")),
            <<>>)
\* void g() {}
VoidG == FuncDef(<<Tok("void")>>, Function(<<>>, Identifier("g")), <<>>)
\* int h(int a) { return a; }
HReturns ==
    FuncDef(<<IntTok>>,
            Function(<<Param(<<IntTok>>, Identifier("a"))>>, Identifier("h")),
            <<ReturnStatement(<<NonLiteral(integer)>>)>>)
\* int *a[3];
PtrArray ==
    Decl1(<<IntTok>>, Pointer(Array(<<Literal(integer, 3)>>, Identifier("a")), FALSE))
\* static int x = 5;
StaticIntX5 ==
    Declaration(DeclRoot(<<Tok("static"), IntTok>>, <<Identifier("x")>>,
                         <<<<Literal(integer, 5)>>>>), NoBody)
\* static int x = y;
StaticIntXY ==
    Declaration(DeclRoot(<<Tok("static"), IntTok>>, <<Identifier("x")>>,
                         <<<<NonLiteral(integer)>>>>), NoBody)
\* int f() { int x = 5; }
LocalIntX5 ==
    FuncDef(<<IntTok>>, Function(<<>>, Identifier("f")),
            <<Declaration(DeclRoot(<<IntTok>>, <<Identifier("x")>>,
                                   <<<<Literal(integer, 5)>>>>), NoBody)>>)
\* int f() { int a[3] = 5; }
LocalArray5 ==
    FuncDef(<<IntTok>>, Function(<<>>, Identifier("f")),
            <<Declaration(DeclRoot(<<IntTok>>,
                                   <<Array(<<Literal(integer, 3)>>, Identifier("a"))>>,
                                   <<<<Literal(integer, 5)>>>>), NoBody)>>)
\* char int c;
CharIntC == Decl1(<<Tok("char"), IntTok>>, Identifier("c"))

TopLevelNodes ==
    {IntX, StaticIntX, StaticStaticIntX, BadArrayThenY, YThenBadParam, MainVoid,
     MainArgcArgv, MainEmpty, VoidMain, MainInt, IncompleteArray,
     LocalIncompleteArray, LocalBadParam, DupParam, VoidG, HReturns, PtrArray,
     CharIntC, StaticIntX5, StaticIntXY, LocalIntX5, LocalArray5,
     \* static extern int x;
     Decl1(<<Tok("static"), Tok("extern"), IntTok>>, Identifier("x")),
     \* int (*p)[3];
     Decl1(<<IntTok>>, Array(<<Literal(integer, 3)>>, Pointer(Identifier("p"), FALSE))),
     \* int *q(int);
     Decl1(<<IntTok>>, Pointer(Function(<<Param(<<IntTok>>, Identifier(NoIdentifier))>>, Identifier("q")), FALSE)),
     \* int (*r)(void);
     Decl1(<<IntTok>>, Function(<<Param(<<Tok("void")>>, Identifier(NoIdentifier))>>, Pointer(Identifier("r"), FALSE))),
     \* int f() = 1;
     Declaration(DeclRoot(<<IntTok>>, <<Function(<<>>, Identifier("f"))>>, <<<<Literal(integer, 1)>>>>), NoBody),
     \* long long z = 5;
     Declaration(DeclRoot(<<Tok("long"), Tok("long")>>, <<Identifier("z")>>, <<<<Literal(integer, 5)>>>>), NoBody),
     \* T t;
     Decl1(<<IdentTok("T")>>, Identifier("t"))}

-----------------------------------------------------------------------------
\* The parser's root driver (core/parser/parser.py).

Root(nodes) == [node |-> "Root", nodes |-> nodes]

\* The token buffer, one element per group of tokens: the tokens of one
\* declaration, written as the node parse_declaration builds from them, or a
\* token that starts no declaration.  Positions count groups from 1.
StrayToken == [node |-> "?"]

TokenStreams ==
    UNION {[1..n -> TopLevelNodes \cup {StrayToken}] : n \in 0..MaxNodes}

\* with log_error(): a ParserError raised inside the block replaces
\* p.best_error when none is recorded or when it got at least as far, and
\* execution continues after the block.
log_error(best_error, r) ==
    IF r.exc.type = "ParserError"
       /\ (best_error = <<>> \/ r.exc.amount_parsed >= best_error[1].amount_parsed)
    THEN <<r.exc>>
    ELSE best_error

\* parse_declaration(index): the declaration that starts at index and the
\* index after it, or a ParserError at index.
parse_declaration(tokens, index) ==
    IF index <= Len(tokens) /\ tokens[index].node = "Declaration"
    THEN [exc |-> NoExc, item |-> tokens[index], index |-> index + 1]
    ELSE [exc |-> ParserError("expected declaration", index),
          item |-> None, index |-> index]

\* The loop of parse_root: declarations are parsed until one fails.
RECURSIVE parse_root_loop(_, _, _, _)
parse_root_loop(tokens, index, items, best_error) ==
    LET K(d) ==
            IF d.exc = NoExc
            THEN parse_root_loop(tokens, d.index, Append(items, d.item), best_error)
            ELSE [items |-> items, index |-> index,
                  best_error |-> log_error(best_error, d)]
    IN K(parse_declaration(tokens, index))

\* parse_root(index): the Root of the declarations if they use up the
\* tokens, "unexpected token" at the first token left otherwise.
parse_root(tokens, index, best_error) ==
    LET K(l) ==
            IF l.index > Len(tokens)
            THEN [exc |-> NoExc, val |-> Root(l.items), best_error |-> l.best_error]
            ELSE [exc |-> ParserError("unexpected token", l.index),
                  val |-> None, best_error |-> l.best_error]
    IN K(parse_root_loop(tokens, index, <<>>, best_error))

-----------------------------------------------------------------------------
\* The compilation as a state machine: parse, then Root.make_il on the tree.
\* tree is the result of parse: <<>> before the call and when it returned
\* None, <<root>> otherwise.

State == [symbol_table |-> symbol_table, il_code |-> il_code,
          error_collector |-> error_collector, log |-> <<>>]

Init ==
    /\ symbol_table = NewSymbolTable
    /\ il_code = NewILCode
    /\ error_collector = <<>>
    /\ tree = <<>>
    /\ crashed = NoExc
    /\ calls = 0
    /\ last = [op |-> "init"]

\* The state a call leaves behind, and the exception that left it (if any).
Commit(r, n) ==
    /\ symbol_table' = r.s.symbol_table
    /\ il_code' = r.s.il_code
    /\ error_collector' = r.s.error_collector
    /\ crashed' = r.exc
    /\ calls' = calls + n
    /\ UNCHANGED tree

\* parse(tokens_to_parse): the tree, or None with p.best_error added to the
\* error collector.
parse(tokens_to_parse) ==
    /\ last.op = "init"
    /\ LET K(r) ==
               LET best_error == log_error(r.best_error, r)
               IN /\ tree' = IF r.exc = NoExc THEN <<r.val>> ELSE <<>>
                  /\ error_collector' =
                         IF r.exc = NoExc THEN error_collector
                         ELSE Append(error_collector, best_error[1].msg)
                  /\ last' = [op |-> "parse", arg |-> tokens_to_parse,
                              best_error |-> best_error]
       IN K(parse_root(tokens_to_parse, 1, <<>>))
    /\ UNCHANGED <<symbol_table, il_code, crashed, calls>>

\* One pass of the loop of Root.make_il: the next node of the tree, under
\* report_err and with c.set_global(True).
Root_make_il ==
    /\ crashed = NoExc
    /\ tree # <<>>
    /\ calls < Len(tree[1].nodes)
    /\ LET node == tree[1].nodes[calls + 1]
           c == set_global(Context(TRUE, <<>>), TRUE)
           K(inner) ==
               LET KR(r) ==
                       /\ Commit(r, 1)
                       /\ last' = [op |-> "Root", arg |-> node, c |-> c,
                                   exc |-> inner.exc, log |-> inner.s.log,
                                   pre |-> State, post |-> r.s]
               IN KR(report_err(inner))
       IN K(Node_make_il(node, State, c))

Next ==
    \/ \E tokens \in TokenStreams : parse(tokens)
    \/ Root_make_il

Spec == Init /\ [][Next]_vars

-----------------------------------------------------------------------------
\* DeclInfo.process called at file scope on DeclInfo objects whose type is
\* already built.

FuncType(args) == FunctionCType(args, integer, FALSE)
Lit5 == <<Literal(integer, 5)>>
RuntimeY == <<NonLiteral(integer)>>
IntArray3 == ArrayCType(integer, <<3>>)
IntArrayIncomplete == ArrayCType(integer, <<>>)

Var(name, ctype, storage, init) == DeclInfo(name, ctype, storage, init, NoBody, <<>>)

\* int x;  static int x;  extern int x;
SetupInputs ==
    {Var("x", integer, NoStorage, NoInit), Var("x", integer, STATIC, NoInit),
     Var("x", integer, EXTERN, NoInit)}

InfoInputs ==
    {Var("x", t, st, init) : t \in {integer, IntArray3}, st \in {NoStorage, STATIC, EXTERN},
                             init \in {Lit5, RuntimeY}}
    \cup {Var("x", integer, NoStorage, NoInit), Var("x", integer, STATIC, NoInit),
          Var("x", integer, EXTERN, NoInit), Var("x", integer, TYPEDEF, NoInit),
          Var("x", IntArrayIncomplete, NoStorage, NoInit),
          Var("x", IntArrayIncomplete, STATIC, Lit5),
          Var("x", PointerCType(integer, FALSE), AUTO, Lit5),
          Var(NoIdentifier, integer, NoStorage, NoInit),
          DeclInfo("x", integer, NoStorage, NoInit, <<Compound(<<>>)>>, <<>>),
          DeclInfo("f", FuncType(<<integer>>), NoStorage, NoInit,
                   <<Compound(<<>>)>>, <<NoIdentifier>>),
          DeclInfo("main", FuncType(<<integer>>), NoStorage, NoInit,
                   <<Compound(<<>>)>>, <<"argc">>),
          DeclInfo("f", FuncType(<<>>), NoStorage, Lit5, NoBody, <<>>),
          Var("a", IntArrayIncomplete, NoStorage, NoInit),
          \* void g() {}
          DeclInfo("g", FunctionCType(<<>>, void, FALSE), NoStorage, NoInit,
                   <<Compound(<<>>)>>, <<>>),
          \* int main() {}
          DeclInfo("main", FuncType(<<>>), NoStorage, NoInit, <<Compound(<<>>)>>, <<>>),
          \* int h() { return 5; }
          DeclInfo("h", FuncType(<<>>), NoStorage, NoInit,
                   <<Compound(<<ReturnStatement(Lit5)>>)>>, <<>>),
          \* int f(int a, int a) {}
          DeclInfo("f", FuncType(<<integer, integer>>), NoStorage, NoInit,
                   <<Compound(<<>>)>>, <<"a", "a">>)}

\* with report_err(): info.process(il_code, symbol_table, c), at file scope.
DeclInfo_process(info) ==
    /\ crashed = NoExc
    /\ calls < MaxCalls
    /\ LET c == set_global(Context(TRUE, <<>>), TRUE)
           K(inner) ==
               LET KR(r) ==
                       /\ Commit(r, 1)
                       /\ last' = [op |-> "process", arg |-> info, c |-> c,
                                   exc |-> inner.exc, log |-> inner.s.log,
                                   pre |-> State, post |-> r.s]
               IN KR(report_err(inner))
       IN K(process(info, State, c))

NextInfo == \E info \in InfoInputs : DeclInfo_process(info)

SpecInfo == Init /\ [][NextInfo]_vars

-----------------------------------------------------------------------------
\* The decision tables get_linkage and get_defined applied to DeclInfo
\* objects of every combination of their inputs, at file scope and in a block,
\* after earlier file-scope declarations of x.

TableInputs ==
    {DeclInfo("x", t, st, init, body, <<>>) :
        t \in {integer, IntArrayIncomplete, FuncType(<<>>)},
        st \in {NoStorage, AUTO, STATIC, EXTERN},
        init \in {NoInit, Lit5},
        body \in {NoBody, <<Compound(<<>>)>>}}

\* info.get_linkage(symbol_table, c), called at file scope, or in a block
\* that holds no declaration yet: after new_scope and c.set_global(False) of
\* Compound.make_il.
Call_get_linkage(info, in_block) ==
    /\ crashed = NoExc
    /\ LET c == set_global(Context(TRUE, <<>>), ~in_block)
           st == IF in_block THEN new_scope(State).symbol_table ELSE symbol_table
       IN last' = [op |-> "get_linkage", arg |-> info, c |-> c, st |-> st,
                   val |-> get_linkage(info, st, c)]
    /\ UNCHANGED <<symbol_table, il_code, error_collector, tree, crashed, calls>>

\* info.get_defined(symbol_table, c), called at file scope or in such a block.
Call_get_defined(info, in_block) ==
    /\ crashed = NoExc
    /\ LET c == set_global(Context(TRUE, <<>>), ~in_block)
           st == IF in_block THEN new_scope(State).symbol_table ELSE symbol_table
       IN last' = [op |-> "get_defined", arg |-> info, c |-> c, st |-> st,
                   val |-> get_defined(info, c)]
    /\ UNCHANGED <<symbol_table, il_code, error_collector, tree, crashed, calls>>

NextTable ==
    \/ \E info \in SetupInputs : DeclInfo_process(info)
    \/ \E info \in TableInputs, in_block \in BOOLEAN : Call_get_linkage(info, in_block)
    \/ \E info \in TableInputs, in_block \in BOOLEAN : Call_get_defined(info, in_block)

SpecTable == Init /\ [][NextTable]_vars

-----------------------------------------------------------------------------
\* Declaration.make_ctype applied to declarator chains of up to MaxChain
\* modifiers over each base type.

RECURSIVE DeclChains(_)
DeclChains(n) ==
    IF n = 0 THEN {Identifier("a")}
    ELSE LET C == DeclChains(n - 1)
         IN C \cup {Pointer(ch, FALSE) : ch \in C}
              \cup {Array(<<Literal(integer, 3)>>, ch) : ch \in C}
              \cup {Array(<<>>, ch) : ch \in C}
              \cup {Function(<<>>, ch) : ch \in C}
              \cup {Function(<<Param(<<IntTok>>, Identifier("p"))>>, ch) : ch \in C}

BaseTypes == {integer, char, void}

Call_make_ctype(decl, base, body) ==
    /\ crashed = NoExc
    /\ LET c == set_global(Context(TRUE, <<>>), TRUE)
           K(r) ==
               /\ symbol_table' = r.s.symbol_table
               /\ il_code' = r.s.il_code
               /\ error_collector' = r.s.error_collector
               /\ last' = [op |-> "make_ctype", arg |-> decl, base |-> base,
                           body |-> body, exc |-> r.exc, val |-> r.val]
       IN K(make_ctype([body |-> body, c |-> c], decl, base, State))
    /\ UNCHANGED <<tree, crashed, calls>>

NextType ==
    \E decl \in DeclChains(MaxChain), base \in BaseTypes,
       body \in {NoBody, <<Compound(<<>>)>>} : Call_make_ctype(decl, base, body)

SpecType == Init /\ [][NextType]_vars

-----------------------------------------------------------------------------
\* Properties.

IsRoot == last.op = "Root"
IsProcess == last.op = "process"

\* The diagnostics added by the last step, and its log events of one kind.
NewErrors ==
    {last.post.error_collector[i] :
        i \in Len(last.pre.error_collector) + 1 .. Len(last.post.error_collector)}
Events(ev) == {i \in 1..Len(last.log) : last.log[i].ev = ev}
CurScope(st) == st[Len(st)]

RECURSIVE TerminalName(_)
TerminalName(decl) ==
    IF decl.node = "Identifier" THEN decl.identifier ELSE TerminalName(decl.child)

\* C1: new_scope and end_scope are paired on every path: whether
\* DeclInfo.process (and the do_body it calls) returns or leaves with an
\* error, the scope depth on exit is the scope depth on entry.
C1_ScopeDepthRestored ==
    IsProcess => Len(last.post.symbol_table) = Len(last.pre.symbol_table)

\* C2: when the specifiers of a declaration line resolve to a storage class
\* and a base type, no failure aborts Declaration.make_il, and every
\* declarator that is a plain name is processed.
C2_AccumulateAndContinue ==
    (IsRoot /\ last.arg.root.specs # <<>>
            /\ Ok(specs_base_type([body |-> last.arg.body, c |-> last.c],
                                  last.arg.root.specs, last.pre)))
    => /\ crashed = NoExc
       /\ \A i \in 1..Len(last.arg.root.decls) :
             last.arg.root.decls[i].node = "Identifier"
             => \E j \in Events("process") :
                    last.log[j].identifier = last.arg.root.decls[i].identifier

\* C3: more than one storage-class token gives the diagnostic "too many
\* storage classes" and adds no symbol; exactly one token gives that storage
\* class; none gives no storage class.
StorageClassOf(kind) ==
    IF kind = "auto" THEN AUTO ELSE IF kind = "static" THEN STATIC
    ELSE IF kind = "extern" THEN EXTERN ELSE TYPEDEF
StorageTokens(specs) ==
    {i \in 1..Len(specs) : specs[i].kind \in {"auto", "static", "extern", "typedef"}}
C3_StorageClasses ==
    IsRoot
    => LET specs == last.arg.root.specs
           toks == StorageTokens(specs)
           storage == Declaration_get_storage([i \in 1..Len(specs) |-> specs[i].kind],
                                              last.pre)
       IN /\ Cardinality(toks) > 1
             => /\ "too many storage classes in declaration specifiers" \in NewErrors
                /\ symbol_table = last.pre.symbol_table
          /\ Cardinality(toks) = 1
             => /\ Ok(storage)
                /\ storage.val = StorageClassOf(specs[CHOOSE i \in toks : TRUE].kind)
          /\ Cardinality(toks) = 0 => (Ok(storage) /\ storage.val = NoStorage)

\* C4: for a first definition of main, int main(void){} and
\* int main(int argc, char **argv){} reach start_func and emit the body;
\* void main(){} and int main(int){} give a diagnostic and emit nothing.
C4_MainSignature ==
    (IsRoot /\ "main" \notin DOMAIN CurScope(last.pre.symbol_table))
    => /\ last.arg \in {MainVoid, MainArgcArgv}
          => /\ il_code.funcs = Append(last.pre.il_code.funcs, "main")
             /\ Events("body") # {}
             /\ NewErrors = {}
       /\ last.arg \in {VoidMain, MainInt}
          => /\ NewErrors # {}
             /\ il_code = last.pre.il_code

\* The linkage recorded for the visible declaration of name in symbol table
\* st (None if there is no visible declaration, or it has no linkage).
RecordedLinkage(st, name) ==
    LET D == {i \in 1..Len(st) : name \in DOMAIN st[i]}
    IN IF D = {} THEN None
       ELSE st[CHOOSE i \in D : \A j \in D : j <= i][name].linkage

\* C5: the linkage table of the method DeclInfo.get_linkage, on DeclInfo
\* objects of every storage class and type, however they were built: static
\* at file scope is internal; extern is the linkage recorded earlier for the
\* identifier, else external; a function with no storage class is external;
\* any other file-scope declaration with no storage class is external; every
\* remaining case has no linkage.  After the DeclInfo of static int x was
\* processed, the DeclInfo of extern int x is processed with internal linkage.
C5_LinkageTable ==
    /\ last.op = "get_linkage"
       => LET info == last.arg
              g == last.c.is_global
              fn == info.ctype.kind = "function"
              prev == RecordedLinkage(last.st, info.identifier)
          IN /\ (g /\ info.storage = STATIC) => last.val = INTERNAL
             /\ (info.storage = EXTERN /\ prev # None) => last.val = prev
             /\ (info.storage = EXTERN /\ prev = None) => last.val = EXTERNAL
             /\ (fn /\ info.storage = NoStorage) => last.val = EXTERNAL
             /\ (g /\ info.storage = NoStorage) => last.val = EXTERNAL
             /\ (~(g /\ info.storage = STATIC) /\ info.storage # EXTERN
                 /\ ~(info.storage = NoStorage /\ (fn \/ g)))
                => last.val = None
    /\ (IsProcess /\ last.arg.storage = EXTERN
        /\ RecordedLinkage(last.pre.symbol_table, "x") = INTERNAL)
       => /\ Events("process") # {}
          /\ \A j \in Events("process") : last.log[j].linkage = INTERNAL

W_C5 ==
    /\ last.op = "get_linkage"
    /\ last.arg.storage = EXTERN
    /\ RecordedLinkage(last.st, "x") = INTERNAL
    /\ last.val = INTERNAL

DefinedRows(info, g, val) ==
    LET obj == info.ctype.kind \notin {"function", "void"}
        fn == info.ctype.kind = "function"
        row1 == g /\ info.storage \in {NoStorage, STATIC} /\ obj /\ info.init = <<>>
        row2 == ~row1 /\ info.storage = EXTERN /\ info.init = <<>> /\ info.body = <<>>
        row3 == ~row1 /\ ~row2 /\ fn /\ info.body = <<>>
    IN /\ row1 => val = TENTATIVE
       /\ row2 => val = UNDEFINED
       /\ row3 => val = UNDEFINED
       /\ (~row1 /\ ~row2 /\ ~row3) => val = DEFINED
       /\ ~g => val # TENTATIVE

\* C6 as stated, for the method DeclInfo.get_defined on DeclInfo objects
\* however they were built: the definition-state table, and in particular no
\* block-scope declaration is tentative and no declaration with an
\* initializer or a body is undefined.
C6_DefinedTable_Original ==
    last.op = "get_defined"
    => /\ DefinedRows(last.arg, last.c.is_global, last.val)
       /\ (last.arg.init # <<>> \/ last.arg.body # <<>>) => last.val # UNDEFINED

\* C6 amended, for the method DeclInfo.get_defined on DeclInfo objects
\* however they were built: the definition-state table; no block-scope
\* declaration is tentative, no declaration with a body is undefined, and a
\* declaration with an initializer is undefined exactly when it has function
\* type and no body.
C6_DefinedTable ==
    last.op = "get_defined"
    => /\ DefinedRows(last.arg, last.c.is_global, last.val)
       /\ last.arg.body # <<>> => last.val # UNDEFINED
       /\ (last.arg.init # <<>> /\ last.val = UNDEFINED)
          => (last.arg.ctype.kind = "function" /\ last.arg.body = <<>>)
       /\ (last.arg.init # <<>> /\ last.arg.ctype.kind = "function"
           /\ last.arg.body = <<>>) => last.val = UNDEFINED

W_C6 ==
    /\ last.op = "get_defined"
    /\ last.arg.init # <<>>
    /\ last.arg.ctype.kind = "function"
    /\ last.arg.body = <<>>
    /\ last.val = UNDEFINED

IncompleteMsg == "variable of incomplete type declared"

\* C7: the declaration int a[]; compiled at file scope, a not declared before,
\* is committed with definition state tentative and external linkage and
\* gives no diagnostic; compiled inside a function body,
\* int f() { int a[]; }, it gives "variable of incomplete type declared".
C7_IncompleteArray ==
    IsRoot
    => /\ (last.arg = IncompleteArray
           /\ "a" \notin DOMAIN CurScope(last.pre.symbol_table))
          => /\ last.exc = NoExc
             /\ NewErrors = {}
             /\ "a" \in DOMAIN CurScope(last.post.symbol_table)
             /\ CurScope(last.post.symbol_table)["a"].defined = TENTATIVE
             /\ CurScope(last.post.symbol_table)["a"].linkage = EXTERNAL
             /\ CurScope(last.post.symbol_table)["a"].ctype = IntArrayIncomplete
       /\ (last.arg = LocalIncompleteArray
           /\ "f" \notin DOMAIN CurScope(last.pre.symbol_table))
          => IncompleteMsg \in NewErrors

\* Whether the commands of function f end with a return.
EndsWithReturn(commands, f) ==
    \E i \in 1..Len(commands) :
        /\ commands[i].func = f
        /\ commands[i].op = "Return"
        /\ \A j \in i + 1 .. Len(commands) : commands[j].func # f

\* C8: when do_body completes, the function's code ends with a return; if the
\* body can fall through, exactly one return follows the body's code: return
\* of a literal 0 registered with register_literal_var for main, a bare return
\* otherwise; if the body always returns, nothing is appended.
C8_ImplicitReturn ==
    IsProcess => \A j \in Events("body") :
        LET e == last.log[j]
            fell == ~EndsWithReturn(e.commands, e.func)
            n == Len(last.post.il_code.commands)
        IN /\ EndsWithReturn(last.post.il_code.commands, e.func)
           /\ ~fell => (last.post.il_code.commands = e.commands /\ last.post.il_code.literals = e.literals)
           /\ fell => /\ n = Len(e.commands) + 1
                      /\ SubSeq(last.post.il_code.commands, 1, n - 1) = e.commands
                      /\ last.post.il_code.commands[n].op = "Return"
                      /\ last.post.il_code.commands[n].func = e.func
           /\ (fell /\ e.func = "main")
              => /\ Len(last.post.il_code.commands[n].arg) = 1
                 /\ last.post.il_code.literals = Append(e.literals, <<last.post.il_code.commands[n].arg[1], 0>>)
           /\ (fell /\ e.func # "main")
              => /\ last.post.il_code.commands[n].arg = <<>>
                 /\ last.post.il_code.literals = e.literals

NonConstantMsg == "non-constant initializer for variable with static storage duration"
NotAssignableMsg == "declared variable is not of assignable type"

\* C9: a first declaration static int x = 5; records 5 as the static initial
\* value of x and emits no instruction; static int x = y; with y a run-time
\* value gives "non-constant initializer ..." and records no static initial
\* value; in a function body, int x = 5; (automatic, arithmetic type) emits an
\* assignment to x, and int a[3] = 5; (automatic, array type) fails with
\* "declared variable is not of assignable type".
C9_InitByStorageDuration ==
    IsRoot
    => LET pre == last.pre.il_code
           post == last.post.il_code
           first(name) == name \notin DOMAIN CurScope(last.pre.symbol_table)
       IN /\ (last.arg = StaticIntX5 /\ first("x"))
             => /\ post.static_inits = Append(pre.static_inits, <<"x", 5>>)
                /\ post.commands = pre.commands
                /\ NewErrors = {}
          /\ (last.arg = StaticIntXY /\ first("x"))
             => /\ NonConstantMsg \in NewErrors
                /\ post.static_inits = pre.static_inits
          /\ (last.arg = LocalIntX5 /\ first("f"))
             => /\ \E i \in Len(pre.commands) + 1 .. Len(post.commands) :
                       /\ post.commands[i].op = "Set"
                       /\ post.commands[i].arg[1] = "x"
                /\ post.static_inits = pre.static_inits
          /\ (last.arg = LocalArray5 /\ first("f"))
             => /\ NotAssignableMsg \in NewErrors
                /\ post.static_inits = pre.static_inits

\* The modifiers of a declarator chain from the root to the Identifier, and
\* the constructors of a type from the outermost to the base type.
RECURSIVE Modifiers(_)
Modifiers(decl) ==
    IF decl.node = "Identifier" THEN <<>>
    ELSE <<IF decl.node = "Pointer" THEN <<"pointer">>
           ELSE IF decl.node = "Array"
           THEN <<"array", IF decl.n = <<>> THEN <<>> ELSE decl.n[1].literal>>
           ELSE <<"function", Len(decl.args)>> >> \o Modifiers(decl.child)

RECURSIVE Constructors(_)
Constructors(t) ==
    IF t.kind = "pointer" THEN <<<<"pointer">>>> \o Constructors(t.arg)
    ELSE IF t.kind = "array" THEN <<<<"array", t.n>>>> \o Constructors(t.el)
    ELSE IF t.kind = "function" THEN <<<<"function", Len(t.args)>>>> \o Constructors(t.ret)
    ELSE <<>>

RECURSIVE BaseOf(_)
BaseOf(t) ==
    IF t.kind = "pointer" THEN BaseOf(t.arg)
    ELSE IF t.kind = "array" THEN BaseOf(t.el)
    ELSE IF t.kind = "function" THEN BaseOf(t.ret)
    ELSE t

Reverse(seq) == [i \in 1..Len(seq) |-> seq[Len(seq) + 1 - i]]

\* The parameter list (void) counts as no parameter in the function type.
SameShape(cons, mods) ==
    /\ Len(cons) = Len(mods)
    /\ \A i \in 1..Len(cons) :
          \/ cons[i] = mods[i]
          \/ cons[i][1] = "function" /\ mods[i][1] = "function"

\* Chains made of Pointer nodes and Array nodes with a size only.
RECURSIVE PointersAndArrays(_)
PointersAndArrays(decl) ==
    \/ decl.node = "Identifier"
    \/ /\ decl.node = "Pointer" \/ (decl.node = "Array" /\ decl.n # <<>>)
       /\ PointersAndArrays(decl.child)

\* C10: make_ctype resolves a declarator chain to a type with one constructor
\* per modifier node, the outermost constructor being the modifier closest to
\* the Identifier and the innermost wrapped type the base type; the identifier
\* is the chain's terminal name; the chain of int *a[3] over int resolves to
\* array of 3 pointers to int.
C10_TypeConstructionOrder ==
    last.op = "make_ctype"
    => /\ (PointersAndArrays(last.arg) /\ last.base = integer) => last.exc = NoExc
       /\ last.exc = NoExc
          => /\ SameShape(Constructors(last.val.ctype), Reverse(Modifiers(last.arg)))
             /\ BaseOf(last.val.ctype) = last.base
             /\ last.val.identifier = TerminalName(last.arg)
       /\ (last.arg = PtrArray.root.decls[1] /\ last.base = integer)
          => last.val.ctype = ArrayCType(PointerCType(integer, FALSE), <<3>>)

\* The errors DeclInfo.process ends with, from its own checks, do_init and
\* do_body.
ProcessErrors ==
    {"missing identifier name in declaration",
     "function definition provided for non-function type",
     "local variable with linkage has initializer",
     IncompleteMsg, NonConstantMsg, NotAssignableMsg,
     "function definition missing parameter name",
     "'main' function must have integer return type",
     "'main' function must have 0 or 2 arguments",
     "first parameter of 'main' must be of integer type",
     "second parameter of 'main' must be like char**"}

\* C11: whenever DeclInfo.process ends with one of its errors, the symbol
\* table holds no entry for the declaration's identifier that it did not hold
\* before the call, and no IL instruction or function start has been emitted.
C11_FailFastBeforeCommit ==
    (IsProcess /\ last.exc.type = "CompilerError" /\ last.exc.msg \in ProcessErrors)
    => /\ Len(last.post.symbol_table) = Len(last.pre.symbol_table)
       /\ \A i \in 1..Len(last.post.symbol_table) :
             last.arg.identifier \in DOMAIN last.post.symbol_table[i]
             => /\ last.arg.identifier \in DOMAIN last.pre.symbol_table[i]
                /\ last.post.symbol_table[i][last.arg.identifier]
                   = last.pre.symbol_table[i][last.arg.identifier]
       /\ last.post.il_code.commands = last.pre.il_code.commands
       /\ last.post.il_code.funcs = last.pre.il_code.funcs

====
